---- MODULE Spec2Model ----
(***************************************************************************)
(* A model of dmsky/priors.py: the prior functors (PriorFunctor,           *)
(* FunctionPrior, the concrete priors, FileFuncPrior) and the two factory  *)
(* functions create_prior_functor and factory.                             *)
(*                                                                         *)
(* Numbers are integers and exact rationals [num, den]; the closed-form    *)
(* densities of scipy.stats and dmsky.utils.stat_funcs, and np.log, are    *)
(* uninterpreted: a call is the term naming the function and its           *)
(* arguments in the order the code passes them.                            *)
(***************************************************************************)
EXTENDS Integers, Sequences, FiniteSets, TLC

VARIABLES fs,          \* the files on disk: filename -> parsed content
          d,           \* the caller's configuration dictionary
          prior,       \* the prior object the caller holds
          op,          \* the operation that ran last
          arg,         \* its argument x (NoArg when it takes none)
          ret,         \* what it returned (NoRet when it raised)
          raised,      \* the exception it ended in (NoError when it returned)
          d0,          \* the caller's dictionary when it was called
          self0,       \* the prior a method was called on, as it was then
          memo,        \* the first evaluation of the prior held: x, the value, and
                       \* whether a method has been called since
          dispatched   \* the functype each create_prior_functor call on d dispatched on

vars == <<fs, d, prior, op, arg, ret, raised, d0, self0, memo, dispatched>>

-----------------------------------------------------------------------------
(* Bounds *)

MaxParam == 2      \* mu, sigma, mean range over 1..MaxParam
MaxX == 2          \* tabulated x values range over 0..MaxX
MaxY == 1          \* tabulated y values range over 0..MaxY, fill values over 1..MaxY+1
MaxCalls == 2      \* create_prior_functor calls made on the same dictionary

Params == 1..MaxParam
TableXs == 0..MaxX
TableYs == 0..MaxY
\* evaluation points of a tabulated prior: every x in the tabulated range, and one
\* point outside on either side; of a closed-form prior: 0 and every parameter value
EvalXs == (0 - 1)..(MaxX + 1)
ParamXs == 0..MaxParam

-----------------------------------------------------------------------------
(* Python values *)

NoPrior == [cls |-> "None"]
NoRet == [nothing |-> TRUE]
NoArg == [noarg |-> TRUE]
NoError == [type |-> "None", msg |-> <<>>, origin |-> "None"]
NoMemo == [empty |-> TRUE]

Exception(type, msg, origin) == [type |-> type, msg |-> msg, origin |-> origin]

Number(n) == [num |-> n, den |-> 1]
Str(s) == [str |-> s]

\* a dictionary is a function from its keys; dict.pop / get / copy
DictHas(m, k) == k \in DOMAIN m
DictGet(m, k, default) == IF k \in DOMAIN m THEN m[k] ELSE default
DictWithout(m, k) == [j \in (DOMAIN m) \ {k} |-> m[j]]
DictCopy(m) == [j \in DOMAIN m |-> m[j]]

Max(a, b) == IF a >= b THEN a ELSE b

-----------------------------------------------------------------------------
(* What a call gives back: an object (or value), or an exception *)

Return(v) == [val |-> v, exc |-> NoError]
Raise(e) == [val |-> NoRet, exc |-> e]
Returned(r) == r.exc = NoError

-----------------------------------------------------------------------------
(* Exact rationals *)

RECURSIVE Gcd(_, _)
Gcd(a, b) == IF b = 0 THEN a ELSE Gcd(b, a % b)

Abs(a) == IF a < 0 THEN 0 - a ELSE a

\* n / dn in lowest terms, dn > 0
Rat(n, dn) ==
    LET g == Gcd(Abs(n), dn)
    IN  [num |-> n \div g, den |-> dn \div g]

-----------------------------------------------------------------------------
(* numpy, scipy.stats and dmsky.utils.stat_funcs: uninterpreted functions *)

Term(f, args, logpdf) == [f |-> f, args |-> args, logpdf |-> logpdf]

\* np.log(v), np.log10(v)
NpLog(v) == [log |-> v]
NpLog10(v) == [log10 |-> v]

\* np.logspace(start, stop, num), start and stop being offset + log10(v)
NpLogspace(lo, hi, v, n) == [logspace |-> <<lo, hi, n>>, around |-> NpLog10(v)]

\* stats.norm(loc=loc, scale=scale).pdf(x)
StatsNormPdf(loc, scale, x) == Term("scipy.stats.norm.pdf", <<loc, scale, x>>, FALSE)

\* stats.lognorm(s, scale=scale).pdf(x)
StatsLognormPdf(s, scale, x) == Term("scipy.stats.lognorm.pdf", <<s, scale, x>>, FALSE)

\* stat_funcs.gauss(x, mu, sigma), lngauss, lgauss, lnlgauss
StatFuncs(name, x, mu, sigma, logpdf) == Term(name, <<x, mu, sigma>>, logpdf)

-----------------------------------------------------------------------------
(* scipy.interpolate.interp1d *)

\* np.argsort(x, kind="mergesort"): the stable permutation that sorts x
Rank(x, i) ==
    Cardinality({j \in 1..Len(x) : x[j] < x[i] \/ (x[j] = x[i] /\ j < i)}) + 1

ArgSort(x) == [r \in 1..Len(x) |-> CHOOSE i \in 1..Len(x) : Rank(x, i) = r]

Take(y, ind) == [r \in 1..Len(ind) |-> y[ind[r]]]

\* np.searchsorted(a, v), side='left': a zero-based insertion index
SearchSorted(a, v) == Cardinality({i \in 1..Len(a) : a[i] < v})

Clip(v, lo, hi) == IF v < lo THEN lo ELSE IF v > hi THEN hi ELSE v

\* interp1d(x, y, kind=kind, bounds_error=bounds_error, fill_value=fill_value),
\* assume_sorted=False: x is sorted and y reordered with it
Interp1d(x, y, kind, bounds_error, fill_value) ==
    [x |-> Take(x, ArgSort(x)), y |-> Take(y, ArgSort(x)), kind |-> kind,
     bounds_error |-> bounds_error, fill_value |-> fill_value]

\* interp1d._call_linear: the line through the two neighbours of x_new
Interp1dCallLinear(f, x_new) ==
    LET i == Clip(SearchSorted(f.x, x_new), 1, Len(f.x) - 1)
        x_lo == f.x[i]
        x_hi == f.x[i + 1]
        y_lo == f.y[i]
        y_hi == f.y[i + 1]
    IN  Rat(y_lo * (x_hi - x_lo) + (y_hi - y_lo) * (x_new - x_lo), x_hi - x_lo)

\* interp1d._call_nearest: x_bds are the midpoints (here doubled) of x
Interp1dCallNearest(f, x_new) ==
    LET x_bds == [i \in 1..(Len(f.x) - 1) |-> f.x[i] + f.x[i + 1]]
        i == Clip(SearchSorted(x_bds, 2 * x_new), 0, Len(f.x) - 1)
    IN  Rat(f.y[i + 1], 1)

\* interp1d.__call__ / _evaluate: interpolate, then fill what is out of bounds
Interp1dEvaluate(f, x_new) ==
    LET y_new == IF f.kind = "nearest" THEN Interp1dCallNearest(f, x_new)
                 ELSE Interp1dCallLinear(f, x_new)
        below_bounds == x_new < f.x[1]
        above_bounds == x_new > f.x[Len(f.x)]
    IN  IF (below_bounds \/ above_bounds) /\ f.bounds_error
        THEN Raise(Exception("ValueError", <<"x_new is out of the interpolation range">>,
                             "interp1d"))
        ELSE IF below_bounds \/ above_bounds THEN Return(Rat(f.fill_value, 1))
        ELSE Return(y_new)

-----------------------------------------------------------------------------
(* dmsky.utils.tools.yaml_load *)

\* the parsed content of the file, or the error of opening a file that is not there
YamlLoad(files, filename) ==
    IF filename \in DOMAIN files THEN Return(files[filename])
    ELSE Raise(Exception("IOError", <<filename>>, "tools.yaml_load"))

-----------------------------------------------------------------------------
(* The module's namespace *)

\* the names the module imports or defines at top level
ModuleGlobals ==
    {"absolute_import", "division", "print_function", "np", "stats", "interp1d",
     "stat_funcs", "tools", "PriorFunctor", "FunctionPrior", "GaussPrior",
     "LGaussPrior", "LGaussLikePrior", "LGaussLogPrior", "LognormPrior",
     "NormPrior", "FileFuncPrior", "create_prior_functor", "factory"}

\* the function objects handed to FunctionPrior as fn and lnfn, applied to (x, y, s)
Apply(fn, x, y, s) ==
    CASE fn = "stat_funcs.gauss"    -> StatFuncs("stat_funcs.gauss", x, y, s, FALSE)
      [] fn = "stat_funcs.lngauss"  -> StatFuncs("stat_funcs.lngauss", x, y, s, FALSE)
      [] fn = "stat_funcs.lgauss"   -> StatFuncs("stat_funcs.lgauss", x, y, s, FALSE)
      [] fn = "stat_funcs.lnlgauss" -> StatFuncs("stat_funcs.lnlgauss", x, y, s, FALSE)
      [] fn = "lgauss_like.fn"      -> StatFuncs("stat_funcs.lgauss", y, x, s, FALSE)
      [] fn = "lgauss_like.lnfn"    -> StatFuncs("stat_funcs.lnlgauss", y, x, s, FALSE)
      [] fn = "lgauss_log.fn"       -> StatFuncs("stat_funcs.lgauss", x, y, s, TRUE)
      [] fn = "lgauss_log.lnfn"     -> StatFuncs("stat_funcs.lnlgauss", x, y, s, TRUE)

\* d[k] for the first k of keys that d lacks: the KeyError of the subscript
KeyError(k) == Exception("KeyError", <<k>>, "dict")
Missing(m, keys) == SelectSeq(keys, LAMBDA k : k \notin DOMAIN m)

\* calling a constructor as cls(**kw): the keywords must be its parameters
BindError(cls, kw, names) ==
    IF DOMAIN kw = names THEN NoError
    ELSE Exception("TypeError", <<cls>>, "call")

\* a method leaves with the object as it is now and with what it returns or raises
Leave(self, out) == [self |-> self, out |-> out]

-----------------------------------------------------------------------------
(* class PriorFunctor *)

PriorFunctorInit(cls, funcname) == [cls |-> cls, funcname |-> funcname]

PriorFunctorNormalization(self) == Leave(self, Return(Number(1)))

PriorFunctorNormalizationRange(self) == Leave(self, Return([lo |-> 0, hi |-> "inf"]))

PriorFunctorFuncname(self) == Leave(self, Return(Str(self.funcname)))

-----------------------------------------------------------------------------
(* class FunctionPrior and its subclasses *)

FunctionPriorClasses ==
    {"FunctionPrior", "GaussPrior", "LGaussPrior", "LGaussLikePrior", "LGaussLogPrior"}

FunctionPriorInit(cls, funcname, mu, sigma, fn, lnfn) ==
    PriorFunctorInit(cls, funcname)
        @@ [mu |-> mu, sigma |-> sigma, fn |-> fn, lnfn |-> lnfn]

\* quad is not a name of the module: looking it up raises NameError
FunctionPriorNormalization(self) ==
    LET norm_r == PriorFunctorNormalizationRange(self).out.val
    IN  IF "quad" \in ModuleGlobals
        THEN Leave(self, Return([quad |-> self, lo |-> norm_r.lo, hi |-> norm_r.hi]))
        ELSE Leave(self, Raise(Exception("NameError", <<"quad">>,
                                         "FunctionPrior.normalization")))

\* (a variant that overwrites the width with the mean it returns)
FunctionPriorMeanStoring(self) ==
    Leave([self EXCEPT !.sigma = self.mu], Return(Number(self.mu)))

FunctionPriorMean(self) == Leave(self, Return(Number(self.mu)))

FunctionPriorSigma(self) == Leave(self, Return(Number(self.sigma)))

\* (a variant that never uses the log-form)
FunctionPriorLogValueOfCall(self, x) ==
    Leave(self, Return(NpLog(Apply(self.fn, x, self.mu, self.sigma))))

FunctionPriorLogValue(self, x) ==
    IF self.lnfn = "None"
    THEN Leave(self, Return(NpLog(Apply(self.fn, x, self.mu, self.sigma))))
    ELSE Leave(self, Return(Apply(self.lnfn, x, self.mu, self.sigma)))

FunctionPriorCall(self, x) ==
    Leave(self, Return(Apply(self.fn, x, self.mu, self.sigma)))

GaussPriorInit(mu, sigma) ==
    FunctionPriorInit("GaussPrior", "gauss", mu, sigma,
                      "stat_funcs.gauss", "stat_funcs.lngauss")

LGaussPriorInit(mu, sigma) ==
    FunctionPriorInit("LGaussPrior", "lgauss", mu, sigma,
                      "stat_funcs.lgauss", "stat_funcs.lnlgauss")

LGaussLikePriorInit(mu, sigma) ==
    FunctionPriorInit("LGaussLikePrior", "lgauss_like", mu, sigma,
                      "lgauss_like.fn", "lgauss_like.lnfn")

LGaussLogPriorInit(mu, sigma) ==
    FunctionPriorInit("LGaussLogPrior", "lgauss_log", mu, sigma,
                      "lgauss_log.fn", "lgauss_log.lnfn")

-----------------------------------------------------------------------------
(* class LognormPrior *)

LognormPriorInit(mu, sigma) ==
    PriorFunctorInit("LognormPrior", "lognorm") @@ [mu |-> mu, sigma |-> sigma]

LognormPriorMean(self) == Leave(self, Return(Number(self.mu)))

LognormPriorSigma(self) == Leave(self, Return(Number(self.sigma)))

LognormPriorCall(self, x) ==
    Leave(self, Return(StatsLognormPdf(self.sigma, self.mu, x)))

-----------------------------------------------------------------------------
(* class NormPrior *)

NormPriorInit(mu, sigma) ==
    PriorFunctorInit("NormPrior", "norm") @@ [mu |-> mu, sigma |-> sigma]

NormPriorMean(self) == Leave(self, Return(Number(self.mu)))

NormPriorSigma(self) == Leave(self, Return(Number(self.sigma)))

NormPriorCall(self, x) ==
    Leave(self, Return(StatsNormPdf(self.mu, self.sigma, x)))

-----------------------------------------------------------------------------
(* class FileFuncPrior *)

\* (a variant whose default fill value is 1)
FileFuncPriorFillValueOne(c) == DictGet(c, "fill_value", 1)

\* self._fill_value = d.get('fill_value', 0)
FileFuncPriorFillValue(c) == DictGet(c, "fill_value", 0)

\* FileFuncPrior(filename): the object, or the error of loading or of a missing key
FileFuncPriorInit(files, filename) ==
    LET loaded == YamlLoad(files, filename)
        c == loaded.val
        missing == Missing(c, <<"mean", "sigma", "x", "y">>)
        kind == DictGet(c, "kind", "linear")
        fill_value == FileFuncPriorFillValue(c)
    IN  IF ~Returned(loaded) THEN loaded
        ELSE IF missing # <<>> THEN Raise(KeyError(Head(missing)))
        ELSE Return(PriorFunctorInit("FileFuncPrior", "file")
                        @@ [filename |-> filename, mu |-> c.mean, sigma |-> c.sigma,
                            x |-> c.x, y |-> c.y, kind |-> kind,
                            fill_value |-> fill_value,
                            interpfunc |-> Interp1d(c.x, c.y, kind, FALSE, fill_value)])

FileFuncPriorMean(self) == Leave(self, Return(Number(self.mu)))

FileFuncPriorSigma(self) == Leave(self, Return(Number(self.sigma)))

FileFuncPriorCall(self, x) == Leave(self, Interp1dEvaluate(self.interpfunc, x))

-----------------------------------------------------------------------------
(* Method lookup by class, and the methods every prior inherits *)

IsFunctionPrior(self) == self.cls \in FunctionPriorClasses

Mean(self) ==
    CASE IsFunctionPrior(self)       -> FunctionPriorMean(self)
      [] self.cls = "LognormPrior"   -> LognormPriorMean(self)
      [] self.cls = "NormPrior"      -> NormPriorMean(self)
      [] self.cls = "FileFuncPrior"  -> FileFuncPriorMean(self)

Sigma(self) ==
    CASE IsFunctionPrior(self)       -> FunctionPriorSigma(self)
      [] self.cls = "LognormPrior"   -> LognormPriorSigma(self)
      [] self.cls = "NormPrior"      -> NormPriorSigma(self)
      [] self.cls = "FileFuncPrior"  -> FileFuncPriorSigma(self)

Call(self, x) ==
    CASE IsFunctionPrior(self)       -> FunctionPriorCall(self, x)
      [] self.cls = "LognormPrior"   -> LognormPriorCall(self, x)
      [] self.cls = "NormPrior"      -> NormPriorCall(self, x)
      [] self.cls = "FileFuncPrior"  -> FileFuncPriorCall(self, x)

\* PriorFunctor.log_value: np.log(self.__call__(x))
PriorFunctorLogValue(self, x) ==
    LET called == Call(self, x)
    IN  IF Returned(called.out) THEN Leave(called.self, Return(NpLog(called.out.val)))
        ELSE called

LogValue(self, x) ==
    IF IsFunctionPrior(self) THEN FunctionPriorLogValue(self, x)
    ELSE PriorFunctorLogValue(self, x)

Normalization(self) ==
    IF IsFunctionPrior(self) THEN FunctionPriorNormalization(self)
    ELSE PriorFunctorNormalization(self)

\* PriorFunctor.marginalization_bins: two decades centred on the mean, 1001 edges
PriorFunctorMarginalizationBins(self) ==
    LET m == Mean(self)
    IN  Leave(m.self, Return(NpLogspace(0 - 1, 1, m.out.val, 1001)))

\* PriorFunctor.profile_bins: max(5 sigma, 3) decades either side of the mean, 101 edges
PriorFunctorProfileBins(self) ==
    LET m == Mean(self)
        sg == Sigma(m.self)
        log_half_width == Max(5 * sg.out.val.num, 3)
    IN  Leave(sg.self, Return(NpLogspace(0 - log_half_width, log_half_width,
                                         m.out.val, 101)))

-----------------------------------------------------------------------------
(* create_prior_functor *)

\* the function types the docstring of create_prior_functor lists
DocumentedTypes == {"lognorm", "norm", "gauss", "lgauss", "lgauss_like", "lgauss_logpdf"}

\* the function types the if/elif chain has a branch for
RecognizedTypes ==
    {"norm", "lognorm", "gauss", "lgauss", "lgauss_like", "lgauss_lik", "lgauss_log",
     "interp"}

\* (a variant that reads the key with d.get and leaves it in d)
GetFunctype(dd) ==
    [functype |-> DictGet(dd, "functype", "lgauss_like"), d |-> dd]

\* (a variant whose default is 'gauss')
PopFunctypeGauss(dd) ==
    [functype |-> DictGet(dd, "functype", "gauss"), d |-> DictWithout(dd, "functype")]

\* functype = d.pop('functype', 'lgauss_like'): the value, and d after the pop
PopFunctype(dd) ==
    [functype |-> DictGet(dd, "functype", "lgauss_like"), d |-> DictWithout(dd, "functype")]

\* (a variant passing sigma for mu and mu for sigma)
NewFunctionPriorSwapped(functype, dd, fn, lnfn) ==
    LET missing == Missing(dd, <<"mu", "sigma">>)
    IN  IF missing # <<>> THEN Raise(KeyError(Head(missing)))
        ELSE Return(FunctionPriorInit("FunctionPrior", functype, dd.sigma, dd.mu, fn, lnfn))

\* (a variant that names the prior of the alias 'lgauss_lik' 'lgauss_like')
NewFunctionPriorCanonical(functype, dd, fn, lnfn) ==
    LET missing == Missing(dd, <<"mu", "sigma">>)
        name == IF functype = "lgauss_lik" THEN "lgauss_like" ELSE functype
    IN  IF missing # <<>> THEN Raise(KeyError(Head(missing)))
        ELSE Return(FunctionPriorInit("FunctionPrior", name, dd.mu, dd.sigma, fn, lnfn))

\* FunctionPrior(functype, d['mu'], d['sigma'], fn, lnfn)
NewFunctionPrior(functype, dd, fn, lnfn) ==
    LET missing == Missing(dd, <<"mu", "sigma">>)
    IN  IF missing # <<>> THEN Raise(KeyError(Head(missing)))
        ELSE Return(FunctionPriorInit("FunctionPrior", functype, dd.mu, dd.sigma, fn, lnfn))

\* (a variant whose message leaves the type out)
UnrecognizedUnnamed(functype) ==
    Exception("KeyError", <<"Unrecognized prior_functor type ">>, "create_prior_functor")

\* KeyError("Unrecognized prior_functor type %s" % functype)
Unrecognized(functype) ==
    Exception("KeyError", <<"Unrecognized prior_functor type ", functype>>,
              "create_prior_functor")

\* the if/elif chain on functype, dd being d after the pop
Dispatch(files, functype, dd) ==
    CASE functype = "norm" ->
            IF BindError("NormPrior", dd, {"mu", "sigma"}) # NoError
            THEN Raise(BindError("NormPrior", dd, {"mu", "sigma"}))
            ELSE Return(NormPriorInit(dd.mu, dd.sigma))
      [] functype = "lognorm" ->
            IF BindError("LognormPrior", dd, {"mu", "sigma"}) # NoError
            THEN Raise(BindError("LognormPrior", dd, {"mu", "sigma"}))
            ELSE Return(LognormPriorInit(dd.mu, dd.sigma))
      [] functype = "gauss" ->
            NewFunctionPrior(functype, dd, "stat_funcs.gauss", "stat_funcs.lngauss")
      [] functype = "lgauss" ->
            NewFunctionPrior(functype, dd, "stat_funcs.lgauss", "stat_funcs.lnlgauss")
      [] functype \in {"lgauss_like", "lgauss_lik"} ->
            NewFunctionPrior(functype, dd, "lgauss_like.fn", "lgauss_like.lnfn")
      [] functype = "lgauss_log" ->
            NewFunctionPrior(functype, dd, "lgauss_log.fn", "lgauss_log.lnfn")
      [] functype = "interp" ->
            IF ~DictHas(dd, "filename") THEN Raise(KeyError("filename"))
            ELSE FileFuncPriorInit(files, dd.filename)
      [] OTHER -> Raise(Unrecognized(functype))

\* create_prior_functor(d): d afterwards, the functype dispatched on, and the outcome
CreatePriorFunctor(files, dd) ==
    LET popped == PopFunctype(dd)
    IN  [d |-> popped.d, functype |-> popped.functype,
         out |-> Dispatch(files, popped.functype, popped.d)]

-----------------------------------------------------------------------------
(* factory *)

\* the classes of the module a prior type names
PriorTypes ==
    {"GaussPrior", "LGaussPrior", "LGaussLikePrior", "LGaussLogPrior", "LognormPrior",
     "NormPrior", "FileFuncPrior"}

\* dmsky.factory.factory(ptype, module=..., **kwargs): the class of that name, called
\* with the keywords
DmskyFactory(files, ptype, kwargs) ==
    IF ptype \notin PriorTypes
    THEN Raise(Exception("KeyError", <<ptype>>, "dmsky.factory.factory"))
    ELSE IF ptype = "FileFuncPrior"
    THEN IF BindError(ptype, kwargs, {"filename"}) # NoError
         THEN Raise(BindError(ptype, kwargs, {"filename"}))
         ELSE FileFuncPriorInit(files, kwargs.filename)
    ELSE IF BindError(ptype, kwargs, {"mu", "sigma"}) # NoError
    THEN Raise(BindError(ptype, kwargs, {"mu", "sigma"}))
    ELSE CASE ptype = "GaussPrior"      -> Return(GaussPriorInit(kwargs.mu, kwargs.sigma))
           [] ptype = "LGaussPrior"     -> Return(LGaussPriorInit(kwargs.mu, kwargs.sigma))
           [] ptype = "LGaussLikePrior" -> Return(LGaussLikePriorInit(kwargs.mu, kwargs.sigma))
           [] ptype = "LGaussLogPrior"  -> Return(LGaussLogPriorInit(kwargs.mu, kwargs.sigma))
           [] ptype = "LognormPrior"    -> Return(LognormPriorInit(kwargs.mu, kwargs.sigma))
           [] ptype = "NormPrior"       -> Return(NormPriorInit(kwargs.mu, kwargs.sigma))

\* factory(ptype, **kw): kwargs is the mapping the call builds from kw, prior_copy its
\* copy; the caller's mapping afterwards, and the outcome
Factory(files, ptype, kw) ==
    LET kwargs == DictCopy(kw)
        prior_copy == DictCopy(kwargs)
    IN  [d |-> kw, out |-> DmskyFactory(files, ptype, prior_copy)]

-----------------------------------------------------------------------------
(* The caller's inputs *)

\* functype strings a caller passes: the recognized, the documented, and another
FunctypeChoices == RecognizedTypes \cup DocumentedTypes \cup {"bogus"}

\* the dictionaries with key k or without it
Opt(k, values) == {<<>>} \cup {[j \in {k} |-> v] : v \in values}

\* configuration dictionaries: mu and sigma with any functype or none; dictionaries
\* lacking mu, sigma or both; and dictionaries naming a file
Configs ==
    {a @@ [mu |-> m, sigma |-> sg] : a \in Opt("functype", FunctypeChoices),
                                     m \in Params, sg \in Params}
    \cup
    {a @@ b @@ c : a \in Opt("functype", {"norm", "gauss"}),
                   b \in Opt("mu", {1}), c \in Opt("sigma", {1})}
    \cup
    {a @@ b @@ e : a \in Opt("functype", {"interp", "norm"}),
                   b \in {<<>>, [mu |-> 1, sigma |-> MaxParam]},
                   e \in Opt("filename", {"full.yaml", "min.yaml", "nomean.yaml",
                                          "missing.yaml"})}

\* files on disk: one with every key, one with the required keys only, one lacking 'mean'
DefaultFiles ==
    "full.yaml" :> [mean |-> MaxParam, sigma |-> 1, x |-> <<MaxX, 0, 1>>,
                    y |-> <<0, MaxY, 1>>, kind |-> "nearest", fill_value |-> MaxY + 1]
    @@ "min.yaml" :> [mean |-> 1, sigma |-> MaxParam, x |-> <<0, MaxX>>, y |-> <<1, 0>>]
    @@ "nomean.yaml" :> [sigma |-> 1, x |-> <<0, 1>>, y |-> <<1, 1>>]

\* tabulated functions: two or three points, distinct x in any order; 'kind' is
\* absent (linear) or 'nearest', 'fill_value' absent (0) or a value, one of them no
\* tabulated y
Injective(s) == \A i, j \in DOMAIN s : s[i] = s[j] => i = j

TableLens == {2, 3}
FillValues == 1..(MaxY + 1)

Tables ==
    UNION {{[mean |-> 1, sigma |-> 1, x |-> xs, y |-> ys] @@ k @@ f :
                xs \in {s \in [1..n -> TableXs] : Injective(s)},
                ys \in [1..n -> TableYs],
                k \in Opt("kind", {"nearest"}),
                f \in Opt("fill_value", FillValues)} : n \in TableLens}

-----------------------------------------------------------------------------
(* State machine: a caller holding one dictionary and one prior *)

Fresh ==
    /\ prior = NoPrior
    /\ op = "init"
    /\ arg = NoArg
    /\ ret = NoRet
    /\ raised = NoError
    /\ d0 = d
    /\ self0 = NoPrior
    /\ memo = NoMemo
    /\ dispatched = <<>>

Init ==
    /\ fs = DefaultFiles
    /\ d \in Configs
    /\ Fresh

\* a constructor or factory call ended with outcome out
Constructed(name, out) ==
    /\ prior' = IF Returned(out) THEN out.val ELSE prior
    /\ memo' = IF Returned(out) THEN NoMemo ELSE memo
    /\ op' = name
    /\ arg' = NoArg
    /\ ret' = out.val
    /\ raised' = out.exc
    /\ d0' = d
    /\ self0' = NoPrior

\* prior = create_prior_functor(d)
CreatePriorFunctorCall ==
    /\ Len(dispatched) < MaxCalls
    /\ LET r == CreatePriorFunctor(fs, d)
       IN  /\ d' = r.d
           /\ dispatched' = Append(dispatched, r.functype)
           /\ Constructed("create_prior_functor", r.out)
    /\ UNCHANGED fs

\* prior = factory(ptype, **d)
FactoryCall ==
    /\ \E ptype \in PriorTypes \cup {"Bogus"} :
         LET r == Factory(fs, ptype, d)
         IN  /\ d' = r.d
             /\ Constructed("factory", r.out)
    /\ UNCHANGED <<fs, dispatched>>

\* prior = FunctionPrior("custom", d['mu'], d['sigma'], fn): no log-form is given
FunctionPriorCall0 ==
    /\ {"mu", "sigma"} \subseteq DOMAIN d
    /\ \E fn \in {"stat_funcs.gauss", "lgauss_like.fn"} :
         Constructed("FunctionPrior",
                     Return(FunctionPriorInit("FunctionPrior", "custom", d.mu, d.sigma,
                                              fn, "None")))
    /\ UNCHANGED <<fs, d, dispatched>>

EvalPoints(self) == IF self.cls = "FileFuncPrior" THEN EvalXs ELSE ParamXs

\* a method of the prior held was called with x and left with r
Called(name, x, r) ==
    /\ prior' = r.self
    /\ op' = name
    /\ arg' = x
    /\ ret' = r.out.val
    /\ raised' = r.out.exc
    /\ d0' = d
    /\ self0' = prior
    /\ memo' = IF memo # NoMemo THEN [memo EXCEPT !.since = TRUE]
               ELSE IF name = "__call__" /\ Returned(r.out)
               THEN [x |-> x.x, val |-> r.out.val, since |-> FALSE]
               ELSE memo
    /\ UNCHANGED <<fs, d, dispatched>>

MeanCall ==
    /\ prior # NoPrior
    /\ Called("mean", NoArg, Mean(prior))

SigmaCall ==
    /\ prior # NoPrior
    /\ Called("sigma", NoArg, Sigma(prior))

FuncnameCall ==
    /\ prior # NoPrior
    /\ Called("funcname", NoArg, PriorFunctorFuncname(prior))

NormalizationCall ==
    /\ prior # NoPrior
    /\ Called("normalization", NoArg, Normalization(prior))

NormalizationRangeCall ==
    /\ prior # NoPrior
    /\ Called("normalization_range", NoArg, PriorFunctorNormalizationRange(prior))

MarginalizationBinsCall ==
    /\ prior # NoPrior
    /\ Called("marginalization_bins", NoArg, PriorFunctorMarginalizationBins(prior))

ProfileBinsCall ==
    /\ prior # NoPrior
    /\ Called("profile_bins", NoArg, PriorFunctorProfileBins(prior))

\* prior(x); the first evaluation of a prior is remembered
CallCall ==
    /\ prior # NoPrior
    /\ \E x \in EvalPoints(prior) : Called("__call__", [x |-> x], Call(prior, x))

LogValueCall ==
    /\ prior # NoPrior
    /\ \E x \in EvalPoints(prior) : Called("log_value", [x |-> x], LogValue(prior, x))

Next ==
    \/ CreatePriorFunctorCall
    \/ FactoryCall
    \/ FunctionPriorCall0
    \/ MeanCall
    \/ SigmaCall
    \/ FuncnameCall
    \/ NormalizationCall
    \/ NormalizationRangeCall
    \/ MarginalizationBinsCall
    \/ ProfileBinsCall
    \/ CallCall
    \/ LogValueCall

Spec == Init /\ [][Next]_vars

\* tabulated priors: any table in the one file, built by create_prior_functor and
\* evaluated
InitInterp ==
    /\ fs \in {"table.yaml" :> t : t \in Tables}
    /\ d = [functype |-> "interp", filename |-> "table.yaml"]
    /\ Fresh

NextInterp ==
    \/ CreatePriorFunctorCall
    \/ CallCall

SpecInterp == InitInterp /\ [][NextInterp]_vars

-----------------------------------------------------------------------------
(* Properties *)

LastDispatched == dispatched[Len(dispatched)]

\* the recognized function types that take mu and sigma
ParamTypes == RecognizedTypes \ {"interp"}

\* d has exactly the keys a closed-form prior needs
WellFormed(dd) == DOMAIN dd \ {"functype"} = {"mu", "sigma"}

\* the smallest and the largest of a sequence of integers
SeqMin(xs) == CHOOSE v \in {xs[i] : i \in DOMAIN xs} : \A i \in DOMAIN xs : v <= xs[i]
SeqMax(xs) == CHOOSE v \in {xs[i] : i \in DOMAIN xs} : \A i \in DOMAIN xs : v >= xs[i]

\* C1: for every supported functype the object create_prior_functor(d) returns has
\* mean() = d['mu'] and sigma() = d['sigma'] (for 'interp': the 'mean' and 'sigma'
\* entries of the file), and a dictionary holding just mu and sigma besides a
\* supported closed-form functype yields such an object
CreatedMeanSigmaMatch ==
    op = "create_prior_functor" =>
        /\ (LastDispatched \in ParamTypes /\ WellFormed(d0)) => raised = NoError
        /\ (LastDispatched \in ParamTypes /\ raised = NoError) =>
              /\ Mean(ret).out = Return(Number(d0.mu))
              /\ Sigma(ret).out = Return(Number(d0.sigma))
        /\ (LastDispatched = "interp" /\ raised = NoError) =>
              /\ Mean(ret).out = Return(Number(fs[d0.filename].mean))
              /\ Sigma(ret).out = Return(Number(fs[d0.filename].sigma))

CreatedMeanSigmaWitness ==
    /\ op = "create_prior_functor"
    /\ raised = NoError
    /\ LastDispatched = "lgauss_log"
    /\ d0.mu # d0.sigma
    /\ ret = prior

\* C2: an unrecognized functype makes create_prior_functor raise a KeyError naming
\* it and return nothing, and create_prior_functor raises no other error of its own
UnrecognizedRaisesKeyError ==
    op = "create_prior_functor" =>
        /\ LastDispatched \notin RecognizedTypes =>
              /\ raised.type = "KeyError"
              /\ raised.origin = "create_prior_functor"
              /\ \E i \in DOMAIN raised.msg : raised.msg[i] = LastDispatched
              /\ ret = NoRet
        /\ raised.origin = "create_prior_functor" => LastDispatched \notin RecognizedTypes

UnrecognizedWitness ==
    /\ op = "create_prior_functor"
    /\ LastDispatched = "bogus"
    /\ raised.type = "KeyError"
    /\ ret = NoRet

\* C3: log_value(x) is the dedicated log-form lnfn(x, mu, sigma) where a
\* FunctionPrior was given one, and np.log of __call__(x) for every other prior
LogValueMatches ==
    op = "log_value" =>
        IF IsFunctionPrior(prior) /\ prior.lnfn # "None"
        THEN /\ raised = NoError
             /\ ret = Apply(prior.lnfn, arg.x, prior.mu, prior.sigma)
        ELSE /\ raised = Call(prior, arg.x).out.exc
             /\ raised = NoError => ret = NpLog(Call(prior, arg.x).out.val)

LogValueWitness ==
    /\ op = "log_value"
    /\ prior.cls = "FunctionPrior"
    /\ prior.lnfn = "lgauss_like.lnfn"
    /\ arg.x # prior.mu
    /\ ret = StatFuncs("stat_funcs.lnlgauss", prior.mu, arg.x, prior.sigma, FALSE)

\* C4: a FileFuncPrior evaluated below the smallest or above the largest tabulated x
\* returns the file's fill_value (0 when the file has none) and does not raise; at a
\* tabulated x it returns the tabulated y
OutOfRangeIsFillValue ==
    (op = "__call__" /\ prior.cls = "FileFuncPrior") =>
        LET c == fs[prior.filename]
        IN  /\ raised = NoError
            /\ (arg.x < SeqMin(c.x) \/ arg.x > SeqMax(c.x)) =>
                  ret = Number(DictGet(c, "fill_value", 0))
            /\ \A i \in DOMAIN c.x : c.x[i] = arg.x => ret = Number(c.y[i])

OutOfRangeWitness ==
    /\ op = "__call__"
    /\ prior.cls = "FileFuncPrior"
    /\ arg.x > SeqMax(fs[prior.filename].x)
    /\ "fill_value" \in DOMAIN fs[prior.filename]
    /\ fs[prior.filename].x[1] > fs[prior.filename].x[2]
    /\ ret = Number(MaxY + 1)

\* C5: mean(), sigma(), funcname, __call__, log_value, marginalization_bins and
\* profile_bins leave the prior as it was, and evaluating it again at the x of its
\* first evaluation returns the same value whatever was called in between
ParametersFixed ==
    /\ op \in {"mean", "sigma", "funcname", "__call__", "log_value",
               "marginalization_bins", "profile_bins"} => prior = self0
    /\ (op = "__call__" /\ memo # NoMemo /\ memo.x = arg.x) =>
          (raised = NoError /\ ret = memo.val)

ParametersFixedWitness ==
    /\ op = "__call__"
    /\ memo # NoMemo
    /\ memo.x = arg.x
    /\ memo.since
    /\ ret = memo.val
    /\ prior = self0
    /\ prior.cls = "FileFuncPrior"

\* C6: every function type the docstring of create_prior_functor lists, given with
\* mu and sigma, yields a prior and not the unrecognized-type error
DocumentedTypesRecognized ==
    (/\ op = "create_prior_functor"
     /\ "functype" \in DOMAIN d0
     /\ LastDispatched \in DocumentedTypes
     /\ WellFormed(d0)) =>
        /\ raised = NoError
        /\ ret # NoRet

\* C7: normalization() completes on every prior and returns a number
NormalizationReturnsNumber ==
    op = "normalization" =>
        /\ raised = NoError
        /\ DOMAIN ret = {"num", "den"}

\* C8: create_prior_functor removes 'functype' from d and changes nothing else of it,
\* whether it returns or raises, so a second call on the same dictionary dispatches
\* on the default; factory leaves the caller's mapping as it was
FunctypePopped ==
    /\ op = "create_prior_functor" =>
          /\ "functype" \notin DOMAIN d
          /\ d = DictWithout(d0, "functype")
    /\ \A i \in 2..Len(dispatched) : dispatched[i] = "lgauss_like"
    /\ op = "factory" => d = d0

FunctypePoppedWitness ==
    /\ op = "create_prior_functor"
    /\ Len(dispatched) = 2
    /\ dispatched[1] = "norm"
    /\ dispatched[2] = "lgauss_like"
    /\ raised # NoError

FuncnameIsFunctype ==
    /\ (op = "create_prior_functor" /\ raised = NoError) =>
          PriorFunctorFuncname(ret).out =
              Return(Str(IF LastDispatched = "interp" THEN "file" ELSE LastDispatched))
    /\ (self0 # NoPrior /\ prior # NoPrior) => prior.funcname = self0.funcname

FuncnameWitness ==
    /\ op = "funcname"
    /\ ret = Str("lgauss_lik")
    /\ dispatched = <<"lgauss_lik">>
    /\ prior.cls = "FunctionPrior"

====
